---------------------------- MODULE Spec2Model ----------------------------
(* A model of app.py, the study-notes generator: the chunker, the summary  *)
(* assembler, the bullet formatter, the length table and the two button   *)
(* handlers.  A Python str is a sequence of one-character strings; a       *)
(* Python list is a sequence.                                              *)
EXTENDS Integers, Sequences, FiniteSets, TLC

VARIABLES
    call,          \* a direct call of one of the pure functions: its name and arguments
    ret,           \* what that call returned or raised
    summary_type,  \* the sidebar's selected tier (app.py:18)
    MAX_LEN,       \* app.py:29
    MIN_LEN,       \* app.py:29
    user_input,    \* the text area's content (app.py:71)
    uploaded_file, \* the uploaded PDF: none, or the page texts pdfplumber extracts
    text,          \* the extracted PDF text (app.py:78-81)
    button,        \* which button this script run handles
    pc,            \* the position of the script run / of summarize_text
    src,           \* the argument of the running summarize_text
    chunks,        \* summarize_text's local `chunks`
    idx,           \* how many chunks the for loop has consumed
    summaries,     \* summarize_text's local `summaries`
    calls,         \* every call the provider received, in order
    fail_idx,      \* the chunk index on which the provider raised (-1: none)
    outcome,       \* what summarize_text returned or raised
    shown          \* what the handler put on the page

pureVars  == <<call, ret>>
appVars   == <<summary_type, MAX_LEN, MIN_LEN, user_input, uploaded_file, text,
               button, pc, src, chunks, idx, summaries, calls, fail_idx,
               outcome, shown>>
vars      == <<call, ret, summary_type, MAX_LEN, MIN_LEN, user_input,
               uploaded_file, text, button, pc, src, chunks, idx, summaries,
               calls, fail_idx, outcome, shown>>

---------------------------------------------------------------------------
(* Bounds of the model.                                                    *)
MaxTextLen == 4
MaxSize    == 3
MaxSumLen  == 7
MaxTokens  == 5

(* Program constants.                                                      *)
DefaultChunkSize == 1000
BulletMinLen     == 5

Min(a, b) == IF a < b THEN a ELSE b
Max(a, b) == IF a > b THEN a ELSE b

(* All strings over alphabet A of length at most n.                        *)
Strs(A, n) == UNION {[1..k -> A] : k \in 0..n}

Ok(v)     == [kind |-> "ok", val |-> v]
Raise(e)  == [kind |-> "raise", val |-> e]

---------------------------------------------------------------------------
(* Python built-ins the code uses.                                         *)

(* range(start, stop, step): the list of its values; step 0 raises         *)
(* ValueError.                                                             *)
PyRange(start, stop, step) ==
    IF step = 0 THEN Raise("ValueError")
    ELSE LET n == IF step > 0
                  THEN (IF start < stop THEN ((stop - start - 1) \div step) + 1 ELSE 0)
                  ELSE (IF start > stop THEN ((start - stop - 1) \div (-step)) + 1 ELSE 0)
         IN  Ok([k \in 1..n |-> start + (k - 1) * step])

(* s[i:j]: negative indices count from the end, then both are clamped.     *)
PyIndex(i, n) == IF i < 0 THEN Max(i + n, 0) ELSE Min(i, n)

PySlice(s, i, j) ==
    LET lo == PyIndex(i, Len(s))
        hi == PyIndex(j, Len(s))
    IN  IF lo < hi THEN SubSeq(s, lo + 1, hi) ELSE <<>>

(* The characters with str.isspace(), which str.strip() and str.split()    *)
(* with no argument treat as whitespace.  A character that has no escape   *)
(* in a TLA+ string is written by its code point, as U+2022 is.            *)
Whitespace ==
    {"\t", "\n", "U+000B", "\f", "\r", "U+001C", "U+001D", "U+001E", "U+001F", " ",
     "U+0085", "U+00A0", "U+1680", "U+2000", "U+2001", "U+2002", "U+2003",
     "U+2004", "U+2005", "U+2006", "U+2007", "U+2008", "U+2009", "U+200A",
     "U+2028", "U+2029", "U+202F", "U+205F", "U+3000"}

(* s.strip(): leading and trailing whitespace removed.                     *)
RECURSIVE LStrip(_)
LStrip(s) == IF s # <<>> /\ Head(s) \in Whitespace THEN LStrip(Tail(s)) ELSE s

RECURSIVE RStrip(_)
RStrip(s) ==
    IF s # <<>> /\ s[Len(s)] \in Whitespace THEN RStrip(SubSeq(s, 1, Len(s) - 1)) ELSE s

strip(s) == RStrip(LStrip(s))

(* s.find(sep): the 0-based index of the leftmost occurrence, or -1.       *)
Find(s, sep) ==
    LET hits == {i \in 0..(Len(s) - Len(sep)) : SubSeq(s, i + 1, i + Len(sep)) = sep}
    IN  IF hits = {} THEN -1 ELSE CHOOSE i \in hits : \A j \in hits : i <= j

(* s.split(sep) for a non-empty sep.                                       *)
RECURSIVE split(_, _)
split(s, sep) ==
    LET i == Find(s, sep)
    IN  IF i = -1 THEN <<s>>
        ELSE <<PySlice(s, 0, i)>> \o split(SubSeq(s, i + Len(sep) + 1, Len(s)), sep)

(* sep.join(list)                                                          *)
RECURSIVE join(_, _)
join(sep, list) ==
    IF list = <<>> THEN <<>>
    ELSE IF Len(list) = 1 THEN list[1]
    ELSE list[1] \o sep \o join(sep, Tail(list))

---------------------------------------------------------------------------
(* The functions of app.py.                                                *)

length_map ==
    [t \in {"Short", "Medium", "Detailed"} |->
        CASE t = "Short"    -> <<60, 20>>
          [] t = "Medium"   -> <<120, 40>>
          [] t = "Detailed" -> <<200, 70>>]

(* A faulty lookup: length_map.get(summary_type, (60, 20)).                *)
resolvePolicy_default(tier) ==
    Ok(IF tier \in DOMAIN length_map THEN length_map[tier] ELSE <<60, 20>>)

(* length_map[summary_type]: a missing key raises KeyError.                *)
resolvePolicy(tier) ==
    IF tier \in DOMAIN length_map THEN Ok(length_map[tier]) ELSE Raise("KeyError")

(* Faulty chunkers: a slice one character too long; a range one step too   *)
(* far; a chunker that returns [""] for the empty text.                    *)
chunk_text_overlap(txt, chunk_size) ==
    LET r == PyRange(0, Len(txt), chunk_size)
    IN  IF r.kind = "raise" THEN r
        ELSE Ok([k \in 1..Len(r.val) |-> PySlice(txt, r.val[k], r.val[k] + chunk_size + 1)])

chunk_text_extra(txt, chunk_size) ==
    LET r == PyRange(0, Len(txt) + 1, chunk_size)
    IN  IF r.kind = "raise" THEN r
        ELSE Ok([k \in 1..Len(r.val) |-> PySlice(txt, r.val[k], r.val[k] + chunk_size)])

chunk_text_nonempty(txt, chunk_size) ==
    LET r == PyRange(0, Max(Len(txt), 1), chunk_size)
    IN  IF r.kind = "raise" THEN r
        ELSE Ok([k \in 1..Len(r.val) |-> PySlice(txt, r.val[k], r.val[k] + chunk_size)])

chunk_text(txt, chunk_size) ==
    LET r == PyRange(0, Len(txt), chunk_size)
    IN  IF r.kind = "raise" THEN r
        ELSE Ok([k \in 1..Len(r.val) |-> PySlice(txt, r.val[k], r.val[k] + chunk_size)])

(* "• ": the bullet character U+2022, written by its code point, and a space. *)
BulletMark == <<"U+2022", " ">>

(* A faulty formatter: it keeps fragments of exactly 5 characters.         *)
to_bullets_ge(summary) ==
    LET sentences == split(summary, <<".", " ">>)
        Keep(s)   == Len(strip(s)) >= BulletMinLen
        kept      == SelectSeq(sentences, Keep)
    IN  [k \in 1..Len(kept) |-> BulletMark \o strip(kept[k])]

to_bullets(summary) ==
    LET sentences == split(summary, <<".", " ">>)
        Keep(s)   == Len(strip(s)) > BulletMinLen
        kept      == SelectSeq(sentences, Keep)
    IN  [k \in 1..Len(kept) |-> BulletMark \o strip(kept[k])]

(* A page's extract_text() result: a str, or None (present = FALSE).       *)
Page(t)  == [present |-> TRUE, text |-> t]
NonePage == [present |-> FALSE, text |-> <<>>]

(* Python truthiness of a page text: None and "" are falsy.                *)
Truthy(page) == page.present /\ page.text # <<>>

RECURSIVE PageLoop(_, _)
PageLoop(pages, acc) ==
    IF pages = <<>> THEN acc
    ELSE PageLoop(Tail(pages),
                  IF Truthy(Head(pages)) THEN acc \o Head(pages).text \o <<"\n">> ELSE acc)

(* A faulty extractor: it returns the text without stripping it.           *)
extract_text_unstripped(file) == PageLoop(file.pages, <<>>)

extract_text_from_pdf(file) == strip(PageLoop(file.pages, <<>>))

(* len(text.split()): the number of maximal runs of non-whitespace.        *)
WordCount(t) ==
    Cardinality({i \in 1..Len(t) :
        t[i] \notin Whitespace /\ (i = 1 \/ t[i - 1] \in Whitespace)})

(* The provider's exception: the pipeline sees one chunk and the two       *)
(* lengths, never the chunk's index, and summarize_text lets the exception *)
(* pass unchanged.                                                         *)
ProviderError == [type |-> "ProviderError", args |-> <<>>]

(* What the provider may return for a chunk (result[0]["summary_text"]).   *)
ProviderOutputs(chunk) ==
    IF chunk = <<>> THEN {<<>>, <<"s">>}
    ELSE {<<Head(chunk)>>, <<Head(chunk), ".", " ", "s">>}

(* A faulty collector: summaries.insert(0, ...).                           *)
PrependSummary(list, s) == <<s>> \o list

(* summaries.append(result[0]["summary_text"])                             *)
AppendSummary(list, s) == Append(list, s)

(* The keyword arguments of the summarizer call (app.py:56-61).            *)
ProviderCall(chunk, result) ==
    [chunk |-> chunk, max_length |-> MAX_LEN, min_length |-> MIN_LEN,
     do_sample |-> FALSE, result |-> result]

(* return " ".join(summaries)                                              *)
SummarizeResult(list) == Ok(join(<<" ">>, list))

---------------------------------------------------------------------------
(* Direct calls of the pure functions: the arguments are drawn in Init and *)
(* one action applies each function.                                       *)

ExampleSummary ==
    <<"A", "I", " ", "i", "s", " ", "g", "r", "e", "a", "t", ".",
      " ", "G", "o", ".", " ", "S", "t", "u", "d", "y", " ", "h",
      "a", "r", "d", " ", "a", "n", "d", " ", "r", "e", "v", "i",
      "e", "w", " ", "d", "a", "i", "l", "y", ".">>

ExampleBullets ==
    <<<<"U+2022", " ", "A", "I", " ", "i", "s", " ", "g", "r", "e", "a",
        "t">>,
      <<"U+2022", " ", "S", "t", "u", "d", "y", " ", "h", "a", "r", "d",
        " ", "a", "n", "d", " ", "r", "e", "v", "i", "e", "w", " ",
        "d", "a", "i", "l", "y", ".">>>>

(* Summaries built from a few pieces, so that several long fragments and   *)
(* fragments of exactly BulletMinLen and BulletMinLen + 1 characters occur.*)
Pieces ==
    {<<"a", "a", "a", "a", "a">>, <<"b", "c", "b", "c", "b", "c">>,
     <<"d", "e", ".", "f", "g", "h", "i">>, <<".", " ">>, <<" ">>, <<"\n">>, <<"\f", "U+00A0">>}

RECURSIVE Flatten(_)
Flatten(ss) == IF ss = <<>> THEN <<>> ELSE Head(ss) \o Flatten(Tail(ss))

SummaryInputs ==
    Strs({"a", ".", " "}, MaxSumLen)
        \cup {Flatten(ps) : ps \in Strs(Pieces, MaxTokens)}
        \cup {ExampleSummary}

ChunkCalls ==
    {[fn |-> "chunk_text", str |-> s, num |-> n] :
        s \in Strs({"a", "b"}, MaxTextLen), n \in (-MaxSize)..MaxSize}

BulletCalls == {[fn |-> "to_bullets", str |-> s, num |-> 0] : s \in SummaryInputs}

Tiers == {"Short", "Medium", "Detailed", "Long", "short", ""}

PolicyCalls == {[fn |-> "length_map", str |-> t, num |-> 0] : t \in Tiers}

NoRet == [kind |-> "none", val |-> <<>>]

(* The values the variables of the other parts keep while one part runs.   *)
AppQuiet ==
    /\ summary_type = "Short" /\ MAX_LEN = 60 /\ MIN_LEN = 20
    /\ user_input = <<>> /\ uploaded_file = <<>> /\ text = <<>>
    /\ button = "none" /\ pc = "idle" /\ src = <<>> /\ chunks = <<>>
    /\ idx = 0 /\ summaries = <<>> /\ calls = <<>> /\ fail_idx = -1
    /\ outcome = NoRet /\ shown = <<>>

InitPure ==
    /\ call \in ChunkCalls \cup BulletCalls \cup PolicyCalls
    /\ ret = NoRet
    /\ AppQuiet

ChunkText ==
    /\ call.fn = "chunk_text" /\ ret = NoRet
    /\ ret' = chunk_text(call.str, call.num)
    /\ UNCHANGED <<call, appVars>>

ToBullets ==
    /\ call.fn = "to_bullets" /\ ret = NoRet
    /\ ret' = Ok(to_bullets(call.str))
    /\ UNCHANGED <<call, appVars>>

ResolvePolicy ==
    /\ call.fn = "length_map" /\ ret = NoRet
    /\ ret' = resolvePolicy(call.str)
    /\ UNCHANGED <<call, appVars>>

NextPure == ChunkText \/ ToBullets \/ ResolvePolicy

SpecPure == InitPure /\ [][NextPure]_vars

---------------------------------------------------------------------------
(* One script run of app.py: the module-level setup, then either one of    *)
(* the two button handlers or a direct call of summarize_text.             *)

MaxChunks == 3
MaxPages  == 2

(* A text of n characters in which consecutive chunks start differently.   *)
Letters == <<"a", "b", "c">>
LongText(n) == [i \in 1..n |-> Letters[(i % 3) + 1]]

LongLens ==
    UNION {{k * DefaultChunkSize, k * DefaultChunkSize + 1} : k \in 1..(MaxChunks - 1)}

DirectTexts == {<<>>, <<"a">>} \cup {LongText(n) : n \in LongLens}

UserInputs ==
    {<<>>, <<"\n", "\r", " ">>, <<"a">>, <<"U+000B", "a", "\t">>}
        \cup {LongText(n) : n \in LongLens}

PageTexts ==
    {NonePage, Page(<<>>), Page(<<"\f", " ">>), Page(<<"U+00A0", "b">>),
     Page(LongText(DefaultChunkSize + 1))}

NoUpload == [present |-> FALSE, pages |-> <<>>]

Uploads ==
    {NoUpload} \cup {[present |-> TRUE, pages |-> ps] : ps \in Strs(PageTexts, MaxPages)}

NoCall == [fn |-> "none", str |-> <<>>, num |-> 0]

InitApp ==
    /\ summary_type \in DOMAIN length_map
    /\ \/ /\ button \in {"summarize", "notes"}
          /\ call = NoCall
          /\ user_input \in UserInputs
          /\ uploaded_file \in Uploads
       \/ /\ button = "none"
          /\ call \in {[fn |-> "summarize_text", str |-> t, num |-> 0] : t \in DirectTexts}
          /\ user_input = <<>>
          /\ uploaded_file = NoUpload
    /\ ret = NoRet
    /\ MAX_LEN = 0 /\ MIN_LEN = 0
    /\ text = <<>> /\ pc = "idle" /\ src = <<>> /\ chunks = <<>>
    /\ idx = 0 /\ summaries = <<>> /\ calls = <<>> /\ fail_idx = -1
    /\ outcome = NoRet /\ shown = <<>>

Show(kind, data) == [kind |-> kind, data |-> data]

(* app.py:18-29 and 78-88: the tier's lengths, and the PDF's text with its *)
(* preview or the "no text" error.                                         *)
Setup ==
    /\ pc = "idle"
    /\ MAX_LEN' = resolvePolicy(summary_type).val[1]
    /\ MIN_LEN' = resolvePolicy(summary_type).val[2]
    /\ text' = IF uploaded_file.present THEN extract_text_from_pdf(uploaded_file) ELSE <<>>
    /\ shown' = IF ~uploaded_file.present THEN <<>>
                ELSE IF text' # <<>>
                     THEN <<Show("subheader", "Extracted Text Preview"),
                            Show("preview", PySlice(text', 0, 1200)),
                            Show("caption", WordCount(text'))>>
                     ELSE <<Show("error", "No text found in the PDF.")>>
    /\ pc' = "buttons"
    /\ UNCHANGED <<pureVars, summary_type, user_input, uploaded_file, button, src,
                   chunks, idx, summaries, calls, fail_idx, outcome>>

(* summarize_text(t) up to its loop: chunks = chunk_text(text).            *)
Invoke(t) ==
    /\ src' = t
    /\ chunks' = chunk_text(t, DefaultChunkSize).val
    /\ idx' = 0
    /\ summaries' = <<>>
    /\ pc' = "loop"

(* The text the Summarize Text handler passes on, or none (app.py:96).     *)
SummarizeSource == IF strip(user_input) = <<>> THEN NoRet ELSE Ok(user_input)

(* The text the Generate Study Notes handler passes on (app.py:110, 115).  *)
NotesSource ==
    IF strip(user_input) = <<>> /\ text = <<>> THEN NoRet
    ELSE Ok(IF text # <<>> THEN text ELSE user_input)

(* app.py:95-101                                                           *)
SummarizeButton ==
    /\ pc = "buttons" /\ button = "summarize"
    /\ IF SummarizeSource = NoRet
       THEN /\ shown' = Append(shown, Show("warning", "Please enter text to summarize."))
            /\ pc' = "done"
            /\ UNCHANGED <<src, chunks, idx, summaries>>
       ELSE /\ Invoke(SummarizeSource.val)
            /\ UNCHANGED shown
    /\ UNCHANGED <<pureVars, summary_type, MAX_LEN, MIN_LEN, user_input, uploaded_file,
                   text, button, calls, fail_idx, outcome>>

(* app.py:109-116                                                          *)
NotesButton ==
    /\ pc = "buttons" /\ button = "notes"
    /\ IF NotesSource = NoRet
       THEN /\ shown' = Append(shown, Show("warning", "Please enter text or upload a PDF."))
            /\ pc' = "done"
            /\ UNCHANGED <<src, chunks, idx, summaries>>
       ELSE /\ Invoke(NotesSource.val)
            /\ UNCHANGED shown
    /\ UNCHANGED <<pureVars, summary_type, MAX_LEN, MIN_LEN, user_input, uploaded_file,
                   text, button, calls, fail_idx, outcome>>

(* summarize_text called on its own, outside the handlers.                 *)
DirectCall ==
    /\ pc = "buttons" /\ call.fn = "summarize_text"
    /\ Invoke(call.str)
    /\ UNCHANGED <<pureVars, summary_type, MAX_LEN, MIN_LEN, user_input, uploaded_file,
                   text, button, calls, fail_idx, outcome, shown>>

(* app.py:55-62, one iteration in which the provider returns.              *)
ProviderReturn ==
    /\ pc = "loop" /\ idx < Len(chunks)
    /\ \E r \in ProviderOutputs(chunks[idx + 1]) :
          /\ calls' = Append(calls, ProviderCall(chunks[idx + 1], Ok(r)))
          /\ summaries' = AppendSummary(summaries, r)
    /\ idx' = idx + 1
    /\ UNCHANGED <<pureVars, summary_type, MAX_LEN, MIN_LEN, user_input, uploaded_file,
                   text, button, pc, src, chunks, fail_idx, outcome, shown>>

(* app.py:55-62, the iteration in which the provider raises: the exception *)
(* leaves summarize_text as it is.                                         *)
ProviderRaise ==
    /\ pc = "loop" /\ idx < Len(chunks)
    /\ calls' = Append(calls, ProviderCall(chunks[idx + 1], Raise(ProviderError)))
    /\ fail_idx' = idx
    /\ outcome' = Raise(ProviderError)
    /\ pc' = "handler"
    /\ UNCHANGED <<pureVars, summary_type, MAX_LEN, MIN_LEN, user_input, uploaded_file,
                   text, button, src, chunks, idx, summaries, shown>>

(* app.py:64                                                               *)
SummarizeReturn ==
    /\ pc = "loop" /\ idx = Len(chunks)
    /\ outcome' = SummarizeResult(summaries)
    /\ pc' = "handler"
    /\ UNCHANGED <<pureVars, summary_type, MAX_LEN, MIN_LEN, user_input, uploaded_file,
                   text, button, src, chunks, idx, summaries, calls, fail_idx, shown>>

(* app.py:102-105: the summary, or the caught exception as an error.       *)
SummarizeShow ==
    /\ pc = "handler" /\ button = "summarize"
    /\ shown' = IF outcome.kind = "ok"
                THEN shown \o <<Show("subheader", "Text Summary"),
                                Show("write", outcome.val)>>
                ELSE Append(shown, Show("error", outcome.val))
    /\ pc' = "done"
    /\ UNCHANGED <<pureVars, summary_type, MAX_LEN, MIN_LEN, user_input, uploaded_file,
                   text, button, src, chunks, idx, summaries, calls, fail_idx, outcome>>

(* app.py:118-131: the bullets and the download of the summary, or the     *)
(* caught exception as an error.                                           *)
NotesShow ==
    /\ pc = "handler" /\ button = "notes"
    /\ shown' = IF outcome.kind = "ok"
                THEN LET bullets == to_bullets(outcome.val)
                     IN  shown \o <<Show("subheader", "AI-Generated Study Notes")>>
                               \o [k \in 1..Len(bullets) |-> Show("write", bullets[k])]
                               \o <<Show("download", outcome.val)>>
                ELSE Append(shown, Show("error", outcome.val))
    /\ pc' = "done"
    /\ UNCHANGED <<pureVars, summary_type, MAX_LEN, MIN_LEN, user_input, uploaded_file,
                   text, button, src, chunks, idx, summaries, calls, fail_idx, outcome>>

(* The direct call hands its result or its exception to its caller.        *)
DirectReturn ==
    /\ pc = "handler" /\ call.fn = "summarize_text"
    /\ ret' = outcome
    /\ pc' = "done"
    /\ UNCHANGED <<call, summary_type, MAX_LEN, MIN_LEN, user_input, uploaded_file,
                   text, button, src, chunks, idx, summaries, calls, fail_idx, outcome,
                   shown>>

NextApp ==
    \/ Setup
    \/ SummarizeButton
    \/ NotesButton
    \/ DirectCall
    \/ ProviderReturn
    \/ ProviderRaise
    \/ SummarizeReturn
    \/ SummarizeShow
    \/ NotesShow
    \/ DirectReturn

SpecApp == InitApp /\ [][NextApp]_vars

---------------------------------------------------------------------------
(* Properties of the pure functions, checked under SpecPure.               *)

ChunkDone  == call.fn = "chunk_text" /\ ret # NoRet
BulletDone == call.fn = "to_bullets" /\ ret # NoRet
PolicyDone == call.fn = "length_map" /\ ret # NoRet

(* C1 - lossless partition: for a positive size, chunk_text returns a list *)
(* whose elements, concatenated in list order, are exactly the text.       *)
C1_LosslessPartition ==
    (ChunkDone /\ call.num > 0) =>
        /\ ret.kind = "ok"
        /\ Flatten(ret.val) = call.str

C1_Witness ==
    /\ ChunkDone /\ call.num > 1 /\ ret.kind = "ok"
    /\ Len(ret.val) >= 2
    /\ Len(ret.val[Len(ret.val)]) < call.num
    /\ \E i, j \in 1..Len(call.str) : call.str[i] # call.str[j]

(* C5 - chunk count and sizes: for a positive size the list has            *)
(* ceil(len/size) elements (none for the empty text), every element but    *)
(* the last has exactly size characters and the last has 1..size.          *)
C5_ChunkCount ==
    (ChunkDone /\ call.num > 0) =>
        /\ ret.kind = "ok"
        /\ LET n    == Len(call.str)
               size == call.num
               c    == ret.val
           IN  /\ Len(c) * size >= n
               /\ (Len(c) - 1) * size < n
               /\ (n = 0) => (c = <<>>)
               /\ \A k \in 1..(Len(c) - 1) : Len(c[k]) = size
               /\ (c # <<>>) => (Len(c[Len(c)]) \in 1..size)

C5_Witness ==
    /\ ChunkDone /\ call.num > 1 /\ ret.kind = "ok"
    /\ Len(call.str) = 2 * call.num
    /\ Len(ret.val) = 2

(* C8 - invalid chunk size: for every size <= 0, chunk_text raises an      *)
(* invalid-argument error (Python's ValueError) and returns no list.       *)
C8_InvalidSizeRaises ==
    (ChunkDone /\ call.num <= 0) => ret.kind = "raise"

(* What the code does for a size <= 0: zero raises ValueError, and a       *)
(* negative size returns the empty list whatever the text.                 *)
C8_CodeBehaviour ==
    (ChunkDone /\ call.num <= 0) =>
        IF call.num = 0 THEN ret = Raise("ValueError") ELSE ret = Ok(<<>>)

(* C7 - policy table: Short, Medium and Detailed resolve to (60, 20),      *)
(* (120, 40) and (200, 70), each with maxLen > minLen > 0; any other tier  *)
(* raises an error (Python's KeyError) and yields no policy.               *)
C7_PolicyTable ==
    PolicyDone =>
        /\ (call.str = "Short")    => ret = Ok(<<60, 20>>)
        /\ (call.str = "Medium")   => ret = Ok(<<120, 40>>)
        /\ (call.str = "Detailed") => ret = Ok(<<200, 70>>)
        /\ (ret.kind = "ok") => (ret.val[1] > ret.val[2] /\ ret.val[2] > 0)
        /\ (call.str \notin {"Short", "Medium", "Detailed"}) => ret.kind = "raise"

C7_Witness ==
    /\ PolicyDone
    /\ call.str \notin {"Short", "Medium", "Detailed"}
    /\ ret.kind = "raise"

(* The fragments of s between the occurrences of ". ", stated by position  *)
(* rather than by scanning.                                                *)
DelimAt(s) == {i \in 1..(Len(s) - 1) : s[i] = "." /\ s[i + 1] = " "}

Fragments(s) ==
    LET D      == DelimAt(s)
        nth(k) == CHOOSE d \in D : Cardinality({e \in D : e <= d}) = k
        from(k) == IF k = 1 THEN 1 ELSE nth(k - 1) + 2
        to(k)   == IF k = Cardinality(D) + 1 THEN Len(s) ELSE nth(k) - 1
    IN  [k \in 1..(Cardinality(D) + 1) |-> SubSeq(s, from(k), to(k))]

(* f without its leading and trailing whitespace, stated by position.      *)
Trimmed(f) ==
    LET nw == {i \in 1..Len(f) : f[i] \notin Whitespace}
    IN  IF nw = {} THEN <<>>
        ELSE SubSeq(f, CHOOSE i \in nw : \A j \in nw : i <= j,
                       CHOOSE i \in nw : \A j \in nw : i >= j)

(* C6 - bullet filtering: to_bullets returns, in order, one bullet         *)
(* "(bullet) " + trim(f) for each fragment f between the ". " delimiters   *)
(* whose trimmed length exceeds 5, and nothing else; the empty summary     *)
(* gives no bullet and the example of the specification gives its two.     *)
C6_BulletFiltering ==
    BulletDone =>
        /\ ret.kind = "ok"
        /\ LET f    == Fragments(call.str)
               keep == {i \in 1..Len(f) : Len(Trimmed(f[i])) > 5}
               b    == ret.val
           IN  /\ Len(b) = Cardinality(keep)
               /\ \A i \in keep :
                    b[Cardinality({j \in keep : j <= i})] = <<"U+2022", " ">> \o Trimmed(f[i])
        /\ (call.str = <<>>) => (ret.val = <<>>)
        /\ (call.str = ExampleSummary) => (ret.val = ExampleBullets)

C6_Witness ==
    /\ BulletDone
    /\ Len(ret.val) = 2
    /\ ret.val[1] # ret.val[2]
    /\ Len(Fragments(call.str)) = 3
    /\ \E i \in 1..3 : Len(Trimmed(Fragments(call.str)[i])) = 5
    /\ \E i \in 1..3 : Len(Trimmed(Fragments(call.str)[i])) = 6

---------------------------------------------------------------------------
(* Properties of summarize_text and of the handlers, checked under SpecApp.*)

Invoked == pc = "loop" \/ outcome # NoRet

(* The i-th chunk of t and the number of chunks, stated by position.       *)
ChunkAt(t, i) == SubSeq(t, (i - 1) * 1000 + 1, Min(i * 1000, Len(t)))
NumChunks(t)  == (Len(t) + 999) \div 1000

SpaceJoined(rs) ==
    Flatten([i \in 1..Len(rs) |-> IF i = 1 THEN rs[1] ELSE <<" ">> \o rs[i]])

TierLengths ==
    CASE summary_type = "Short"    -> <<60, 20>>
      [] summary_type = "Medium"   -> <<120, 40>>
      [] summary_type = "Detailed" -> <<200, 70>>

(* C2 - order preservation: the provider is called once per chunk, the     *)
(* i-th call with the i-th 1000-character chunk of the text and the        *)
(* selected tier's lengths, and the returned string is the per-chunk       *)
(* summaries in chunk order, joined by single spaces.                      *)
C2_OrderPreservation ==
    /\ Invoked =>
          \A i \in 1..Len(calls) :
              /\ calls[i].chunk = ChunkAt(src, i)
              /\ calls[i].max_length = TierLengths[1]
              /\ calls[i].min_length = TierLengths[2]
    /\ (outcome.kind = "ok") =>
          /\ Len(calls) = NumChunks(src)
          /\ \A i \in 1..Len(calls) : calls[i].result.kind = "ok"
          /\ outcome.val = SpaceJoined([i \in 1..Len(calls) |-> calls[i].result.val])

C2_Witness ==
    /\ outcome.kind = "ok"
    /\ summary_type = "Detailed"
    /\ Len(calls) = 3
    /\ calls[1].chunk # calls[2].chunk
    /\ Len(calls[1].result.val) # Len(calls[2].result.val)

(* C3 - failure propagation: when the provider fails on chunk index k,     *)
(* summarize_text fails with a SummarizationFailure that identifies k.     *)
C3_FailureIdentifiesIndex ==
    (fail_idx >= 0) =>
        outcome = Raise([type |-> "SummarizationFailure", args |-> <<fail_idx>>])

(* What the code does when the provider fails on chunk k: the provider's   *)
(* own exception leaves summarize_text, the provider is not called again,  *)
(* and the handler shows the error and nothing of the earlier summaries.   *)
C3_CodeBehaviour ==
    (fail_idx >= 0) =>
        /\ outcome = Raise(ProviderError)
        /\ Len(calls) = fail_idx + 1
        /\ (pc = "done" /\ button # "none") =>
              /\ shown[Len(shown)] = Show("error", ProviderError)
              /\ \A i \in 1..Len(shown) : shown[i].kind \notin {"write", "download"}
        /\ (pc = "done" /\ button = "none") => ret = Raise(ProviderError)

(* C4 - empty input: summarize_text("") returns "", does not fail and      *)
(* never calls the provider.                                               *)
C4_EmptyInput ==
    (Invoked /\ src = <<>>) =>
        /\ calls = <<>>
        /\ outcome \in {NoRet, Ok(<<>>)}
        /\ (pc = "done") => (ret = Ok(<<>>))

C4_Witness ==
    /\ call = [fn |-> "summarize_text", str |-> <<>>, num |-> 0]
    /\ pc = "done"
    /\ ret = Ok(<<>>)
    /\ calls = <<>>

NonBlank(t) == \E i \in 1..Len(t) : t[i] \notin Whitespace

PdfHasInk ==
    /\ uploaded_file.present
    /\ \E p \in 1..Len(uploaded_file.pages) :
          uploaded_file.pages[p].present /\ NonBlank(uploaded_file.pages[p].text)

TextAvailable ==
    IF button = "summarize" THEN NonBlank(user_input)
    ELSE NonBlank(user_input) \/ PdfHasInk

(* C10 - blank-input guard: in both handlers summarize_text is invoked     *)
(* only with a text holding a non-whitespace character; with no such text  *)
(* the handler shows a warning and the provider is never called.           *)
C10_BlankInputGuard ==
    (button \in {"summarize", "notes"}) =>
        /\ Invoked => NonBlank(src)
        /\ (calls # <<>>) => NonBlank(src)
        /\ (pc = "done" /\ ~TextAvailable) =>
              /\ shown # <<>>
              /\ shown[Len(shown)].kind = "warning"
              /\ calls = <<>>
              /\ outcome = NoRet

C10_Witness ==
    /\ button = "notes" /\ pc = "done"
    /\ user_input = <<"\n", "\r", " ">>
    /\ uploaded_file.present
    /\ \E p \in 1..Len(uploaded_file.pages) : uploaded_file.pages[p] = Page(<<"\f", " ">>)
    /\ shown[Len(shown)].kind = "warning"
    /\ calls = <<>>

===========================================================================
